---------------------------- MODULE Spec2Model ----------------------------
(***************************************************************************)
(* A model of src/src/custom-resource-helper.ts: the entry point returned  *)
(* by customResourceHelper, the dispatcher handleRessource, the deadline   *)
(* guard handleTimeout and the callback sender sendResponse.               *)
(*                                                                         *)
(* JavaScript runs every continuation to completion, and promise reactions *)
(* (microtasks) run before the next timer or I/O callback.  One action of  *)
(* the model is therefore one callback of the event loop together with all *)
(* the promise reactions of this module that it makes ready.  The things   *)
(* the module does not control are separate actions: the settling of the   *)
(* user's handler-set factory and handlers, the completion of an HTTP PUT, *)
(* the firing of a timer and the passing of time.                          *)
(***************************************************************************)
EXTENDS Integers, Sequences, FiniteSets, TLC

\* ------------------------------------------------------------------ bounds

\* The clock advances in steps of TickMs milliseconds, MaxTicks times at most.
TickMs == 1000
MaxTicks == 4

\* ------------------------------------------------------- program constants

\* handleTimeout: the margin subtracted from the remaining time.
SAFETY_MARGIN_MS == 3000

\* ---------------------------------------------------------- the invocations

\* The entry point may be invoked several times; each invocation has its own
\* event, context and closures.
Invocations == {1, 2}

\* The invocations the host starts under Spec.
SingleInvocation == {1}

\* --------------------------------------------------------- JavaScript values

\* An optional value: << >> is undefined, <<v>> is the value v.
Absent == << >>
Some(v) == <<v>>

\* What a promise can be rejected with (or a function can throw).
Undefined == [kind |-> "undefined"]
ErrorWith(m) == [kind |-> "Error", message |-> m]
NoMessageObject == [kind |-> "object"]

\* The rejection values of user code that the model enumerates.
UserErrors == {ErrorWith("boom"), ErrorWith(""), NoMessageObject, Undefined}

\* axios.put rejecting: an Error that carries a message.
NetworkError == ErrorWith("Network Error")

\* handleRessource, default case of the switch.
InvalidRequestTypeError == ErrorWith("Invalid RequestType received")

\* handleTimeout: the value the timer rejects with.
TimeoutError == ErrorWith("Execution timed out")

\* Response data objects: sets of key/value pairs.
EmptyData == {}
SomeData == {<<"Key", "Value">>}

\* ------------------------------------------------------------------ inputs

RequestTypes == {"Create", "Update", "Delete", "Replace"}
HandlerNames == {"onCreate", "onUpdate", "onDelete"}

\* The milliseconds an invocation has left when the host starts it.
Lifetimes == {2000, 5000}

\* What an onCreate or onUpdate handler can resolve with.
HandlerReturns ==
  [physicalResourceId : {"", "id-A", "id-B"},
   responseData : {Absent, Some(EmptyData), Some(SomeData)}]

\* The event of invocation i: Update and Delete events carry the
\* PhysicalResourceId of the resource, Create events carry none.
Event(i, rt) ==
  [RequestType |-> rt,
   StackId |-> <<"stack", i>>,
   RequestId |-> <<"request", i>>,
   LogicalResourceId |-> <<"resource", i>>,
   ResponseURL |-> <<"url", i>>,
   PhysicalResourceId |-> IF rt \in {"Update", "Delete"} THEN Some("id-A") ELSE Absent]

NoEvent == [RequestType |-> "none"]

VARIABLES
  now,        \* the clock, in milliseconds
  event,      \* event[i]: the event the host passed to invocation i
  context,    \* context[i]: when invocation i started and when the host kills it
  main,       \* main[i]: where the entry point's async function is
  handlers,   \* handlers[i]: the handlers the factory registered
  disp,       \* disp[i]: where handleRessource's async function is
  dispError,  \* dispError[i]: what handleRessource's promise rejected with
  calls,      \* calls[i]: the user handlers invoked, in order
  handler,    \* handler[i]: the invoked handler's promise, and whether it
              \*   settled before the timer fired
  timer,      \* timer[i]: the timer set by handleTimeout
  race,       \* race[i]: the promise of Promise.race
  caught,     \* caught[i]: the error the entry point's catch block received
  puts        \* puts[i]: the PUTs issued through axios.put, in order

vars == <<now, event, context, main, handlers, disp, dispError, calls,
          handler, timer, race, caught, puts>>

NoContext == [startedAt |-> 0, deadline |-> 0]
NoTimer == [state |-> "none", armedAt |-> 0, due |-> 0]
NoHandler == [state |-> "none"]
NoRace == [state |-> "none"]

Init ==
  /\ now = 0
  /\ event = [i \in Invocations |-> NoEvent]
  /\ context = [i \in Invocations |-> NoContext]
  /\ main = [i \in Invocations |-> "idle"]
  /\ handlers = [i \in Invocations |-> {}]
  /\ disp = [i \in Invocations |-> "none"]
  /\ dispError = [i \in Invocations |-> Absent]
  /\ calls = [i \in Invocations |-> << >>]
  /\ handler = [i \in Invocations |-> NoHandler]
  /\ timer = [i \in Invocations |-> NoTimer]
  /\ race = [i \in Invocations |-> NoRace]
  /\ caught = [i \in Invocations |-> Absent]
  /\ puts = [i \in Invocations |-> << >>]

\* ------------------------------------------------------------ sendResponse

\* a || b on strings: the empty string and undefined are falsy.
OrString(opt, default) ==
  IF opt = Absent THEN default
  ELSE IF opt[1] = "" THEN default ELSE opt[1]

\* a || b on objects: only undefined is falsy.
OrObject(opt, default) ==
  IF opt = Absent THEN default ELSE opt[1]

DefaultReason == "See the details in CloudWatch Log Stream"

\* sendResponse: the body given to JSON.stringify.
ResponseBody(ev, details) ==
  [Status |-> details.responseStatus,
   Reason |-> OrString(details.reason, DefaultReason),
   PhysicalResourceId |-> OrString(details.physicalResourceId, "None"),
   StackId |-> ev.StackId,
   RequestId |-> ev.RequestId,
   LogicalResourceId |-> ev.LogicalResourceId,
   Data |-> OrObject(details.responseData, EmptyData)]

\* sendResponse up to its await: the PUT handed to axios.put, in flight.
\* from is the async function that awaits it.
SendResponse(ev, details, from) ==
  [url |-> ev.ResponseURL,
   body |-> ResponseBody(ev, details),
   status |-> "inflight",
   from |-> from]

\* ---------------------------------------------- customResourceHelper: catch

\* error.message, for an error that is not undefined.
Message(error) ==
  IF error.kind = "Error" THEN Some(error.message) ELSE Absent

\* The catch block's responseDetails.
FailedDetails(error) ==
  [responseStatus |-> "FAILED",
   reason |-> Some(OrString(Message(error), "Internal Error")),
   physicalResourceId |-> Absent,
   responseData |-> Absent]

\* The catch block reads error.message: on undefined that throws a
\* TypeError out of the catch block, which rejects the entry point's promise
\* before sendResponse is reached.
CatchThrows(error) == error.kind = "undefined"

\* The entry point after the catch block ran with error.
CatchMain(error) == IF CatchThrows(error) THEN "rejected" ELSE "awaitSend"

\* CatchPuts reading the event from a slot the invocations share, which
\* holds the event of the last of them that was invoked.
CatchPutsSharedEvent(i, ps, error) ==
  IF CatchThrows(error) THEN ps
  ELSE Append(ps, SendResponse(IF event[2] # NoEvent THEN event[2] ELSE event[1],
                               FailedDetails(error), "customResourceHelper"))

\* CatchPuts sending back the PhysicalResourceId the event carries.
CatchPutsKeepsId(i, ps, error) ==
  IF CatchThrows(error) THEN ps
  ELSE Append(ps, SendResponse(event[i],
                               [FailedDetails(error) EXCEPT
                                  !.physicalResourceId = event[i].PhysicalResourceId],
                               "customResourceHelper"))

\* The PUTs after the catch block ran with error, ps being those before.
CatchPuts(i, ps, error) ==
  IF CatchThrows(error) THEN ps
  ELSE Append(ps, SendResponse(event[i], FailedDetails(error), "customResourceHelper"))

\* -------------------------------------------------------- handleRessource

\* HandlerFor with the Update case selecting the Create handler.
HandlerForUpdateCallsCreate(requestType) ==
  CASE requestType = "Create" -> "onCreate"
    [] requestType = "Update" -> "onCreate"
    [] requestType = "Delete" -> "onDelete"
    [] OTHER -> "invalid"

\* HandlerFor with the default case falling into the Delete case.
HandlerForNoDefault(requestType) ==
  CASE requestType = "Create" -> "onCreate"
    [] requestType = "Update" -> "onUpdate"
    [] OTHER -> "onDelete"

\* The switch on event.RequestType: the handler it selects, "invalid" in
\* the default case.
HandlerFor(requestType) ==
  CASE requestType = "Create" -> "onCreate"
    [] requestType = "Update" -> "onUpdate"
    [] requestType = "Delete" -> "onDelete"
    [] OTHER -> "invalid"

\* InitialLocals starting from the id the event carries.
InitialLocalsFromEvent(ev) ==
  [physicalResourceId |-> OrString(ev.PhysicalResourceId, "None"),
   responseData |-> EmptyData]

\* The locals physicalResourceId and responseData as first assigned.
InitialLocals(ev) ==
  [physicalResourceId |-> "None", responseData |-> EmptyData]

\* The value an onDelete handler resolves with.
Void == [physicalResourceId |-> "", responseData |-> Absent]

\* LocalsAfter sending back the id a Delete event carries.
LocalsAfterDeleteKeepsId(ev, locals, r) ==
  IF ev.RequestType \in {"Create", "Update"}
  THEN [physicalResourceId |-> r.physicalResourceId,
        responseData |-> OrObject(r.responseData, EmptyData)]
  ELSE [locals EXCEPT !.physicalResourceId = OrString(ev.PhysicalResourceId, @)]

\* The locals after the awaited handler resolved with r: onCreate and
\* onUpdate are destructured (responseData defaulting to {}), the value of
\* onDelete is dropped.
LocalsAfter(ev, locals, r) ==
  IF ev.RequestType \in {"Create", "Update"}
  THEN [physicalResourceId |-> r.physicalResourceId,
        responseData |-> OrObject(r.responseData, EmptyData)]
  ELSE locals

\* The responseDetails of the success path.
SuccessDetails(locals) ==
  [responseStatus |-> "SUCCESS",
   reason |-> Some("OK"),
   responseData |-> Some(locals.responseData),
   physicalResourceId |-> Some(locals.physicalResourceId)]

\* ----------------------------------------------------------- handleTimeout

\* TimeoutDelay without the safety margin.
TimeoutDelayNoMargin(remaining) == remaining

\* TimeoutDelay with its operands swapped.
TimeoutDelayReversed(remaining) == SAFETY_MARGIN_MS - remaining

\* The delay given to setTimeout.
TimeoutDelay(remaining) == remaining - SAFETY_MARGIN_MS

\* setTimeout(f, delay) called at time t: a delay below zero is no delay.
SetTimeoutDue(t, delay) == t + (IF delay < 0 THEN 0 ELSE delay)

\* context.getRemainingTimeInMillis()
RemainingTimeInMillis(i) == context[i].deadline - now

\* handleTimeout: the timer it arms.
ArmedTimer(i) ==
  [state |-> "armed",
   armedAt |-> now,
   due |-> SetTimeoutDue(now, TimeoutDelay(RemainingTimeInMillis(i)))]

\* ------------------------------------------------------------ Promise.race

Pending == [state |-> "pending"]
Fulfilled == [state |-> "fulfilled"]
Rejected(error) == [state |-> "rejected", reason |-> error]

\* -------------------------------------------------------------- the actions

\* Invoke arming the Deadline Guard before the handler-set factory is awaited.
InvokeArmsTimer(i, requestType, lifetime, failure) ==
  /\ main[i] = "idle"
  /\ event' = [event EXCEPT ![i] = Event(i, requestType)]
  /\ context' = [context EXCEPT ![i] = [startedAt |-> now, deadline |-> now + lifetime]]
  /\ timer' = [timer EXCEPT ![i] =
       [state |-> "armed", armedAt |-> now, due |-> SetTimeoutDue(now, TimeoutDelay(lifetime))]]
  /\ IF failure = Absent
     THEN /\ main' = [main EXCEPT ![i] = "awaitFactory"]
          /\ UNCHANGED <<puts, caught>>
     ELSE /\ main' = [main EXCEPT ![i] = CatchMain(failure[1].error)]
          /\ caught' = [caught EXCEPT ![i] = Some(failure[1].error)]
          /\ puts' = [puts EXCEPT ![i] =
               IF CatchThrows(failure[1].error) THEN @
               ELSE Append(@, SendResponse(Event(i, requestType),
                                           FailedDetails(failure[1].error),
                                           "customResourceHelper"))]
  /\ UNCHANGED <<now, handlers, disp, dispError, calls, handler, race>>

\* The host invokes the entry point: the default logger, the custom log
\* factory if one was given, and the call of the handler-set factory, up to
\* the await.  failure is Absent, or says which of the two user functions
\* throws and what.
Invoke(i, requestType, lifetime, failure) ==
  /\ main[i] = "idle"
  /\ event' = [event EXCEPT ![i] = Event(i, requestType)]
  /\ context' = [context EXCEPT ![i] = [startedAt |-> now, deadline |-> now + lifetime]]
  /\ IF failure = Absent
     THEN /\ main' = [main EXCEPT ![i] = "awaitFactory"]
          /\ UNCHANGED <<puts, caught>>
     ELSE /\ main' = [main EXCEPT ![i] = CatchMain(failure[1].error)]
          /\ caught' = [caught EXCEPT ![i] = Some(failure[1].error)]
          /\ puts' = [puts EXCEPT ![i] =
               IF CatchThrows(failure[1].error) THEN @
               ELSE Append(@, SendResponse(Event(i, requestType),
                                           FailedDetails(failure[1].error),
                                           "customResourceHelper"))]
  /\ UNCHANGED <<now, handlers, disp, dispError, calls, handler, timer, race>>

\* The failures of the synchronous part of the entry point.
SyncFailures ==
  {Absent} \cup {Some([in |-> f, error |-> e]) :
                   f \in {"logFactory", "resourceHandlerFactory"}, e \in UserErrors}

\* The promise of the handler-set factory rejects.
FactoryRejects(i, error) ==
  /\ main[i] = "awaitFactory"
  /\ main' = [main EXCEPT ![i] = CatchMain(error)]
  /\ caught' = [caught EXCEPT ![i] = Some(error)]
  /\ puts' = [puts EXCEPT ![i] = CatchPuts(i, @, error)]
  /\ UNCHANGED <<now, event, context, handlers, disp, dispError, calls,
                 handler, timer, race>>

\* The handler-set factory resolves with the handlers hs.  The entry point
\* calls handleRessource, which runs up to its first await (or throws), then
\* handleTimeout, which arms the timer, then awaits Promise.race.
FactoryResolves(i, hs) ==
  /\ main[i] = "awaitFactory"
  /\ handlers' = [handlers EXCEPT ![i] = hs]
  /\ timer' = [timer EXCEPT ![i] = ArmedTimer(i)]
  /\ LET selected == HandlerFor(event[i].RequestType) IN
     IF selected = "invalid"
     THEN \* default: throw; the race is rejected before any timer can fire
          /\ disp' = [disp EXCEPT ![i] = "rejected"]
          /\ dispError' = [dispError EXCEPT ![i] = Some(InvalidRequestTypeError)]
          /\ race' = [race EXCEPT ![i] = Rejected(InvalidRequestTypeError)]
          /\ main' = [main EXCEPT ![i] = CatchMain(InvalidRequestTypeError)]
          /\ caught' = [caught EXCEPT ![i] = Some(InvalidRequestTypeError)]
          /\ puts' = [puts EXCEPT ![i] = CatchPuts(i, @, InvalidRequestTypeError)]
          /\ UNCHANGED <<calls, handler>>
     ELSE IF selected \in hs
     THEN \* the handler is called and awaited
          /\ calls' = [calls EXCEPT ![i] = Append(@, selected)]
          /\ handler' = [handler EXCEPT ![i] = [state |-> "pending"]]
          /\ disp' = [disp EXCEPT ![i] = "awaitHandler"]
          /\ race' = [race EXCEPT ![i] = Pending]
          /\ main' = [main EXCEPT ![i] = "awaitRace"]
          /\ UNCHANGED <<dispError, puts, caught>>
     ELSE \* no handler: straight to sendResponse
          /\ puts' = [puts EXCEPT ![i] =
               Append(@, SendResponse(event[i],
                                      SuccessDetails(InitialLocals(event[i])),
                                      "handleRessource"))]
          /\ disp' = [disp EXCEPT ![i] = "awaitPut"]
          /\ race' = [race EXCEPT ![i] = Pending]
          /\ main' = [main EXCEPT ![i] = "awaitRace"]
          /\ UNCHANGED <<dispError, calls, handler, caught>>
  /\ UNCHANGED <<now, event, context>>

\* What the handler of an event can resolve with.
ReturnsOf(ev) ==
  IF ev.RequestType = "Delete" THEN {Void} ELSE HandlerReturns

\* The awaited handler resolves with r: handleRessource goes on to
\* sendResponse, whatever the state of the race.
HandlerResolves(i, r) ==
  /\ disp[i] = "awaitHandler"
  /\ handler[i].state = "pending"
  /\ r \in ReturnsOf(event[i])
  /\ handler' = [handler EXCEPT ![i] =
       [state |-> "resolved", value |-> r, inTime |-> timer[i].state = "armed"]]
  /\ puts' = [puts EXCEPT ![i] =
       Append(@, SendResponse(event[i],
                              SuccessDetails(LocalsAfter(event[i], InitialLocals(event[i]), r)),
                              "handleRessource"))]
  /\ disp' = [disp EXCEPT ![i] = "awaitPut"]
  /\ UNCHANGED <<now, event, context, main, handlers, dispError, calls, timer,
                 race, caught>>

\* The awaited handler rejects: handleRessource's promise rejects, and if
\* the race is undecided the entry point's catch block runs.
HandlerRejects(i, error) ==
  /\ disp[i] = "awaitHandler"
  /\ handler[i].state = "pending"
  /\ handler' = [handler EXCEPT ![i] =
       [state |-> "rejected", value |-> error, inTime |-> timer[i].state = "armed"]]
  /\ disp' = [disp EXCEPT ![i] = "rejected"]
  /\ dispError' = [dispError EXCEPT ![i] = Some(error)]
  /\ IF race[i] = Pending
     THEN /\ race' = [race EXCEPT ![i] = Rejected(error)]
          /\ main' = [main EXCEPT ![i] = CatchMain(error)]
          /\ caught' = [caught EXCEPT ![i] = Some(error)]
          /\ puts' = [puts EXCEPT ![i] = CatchPuts(i, @, error)]
     ELSE UNCHANGED <<race, main, caught, puts>>
  /\ UNCHANGED <<now, event, context, handlers, calls, timer>>

\* TimerFires with the timer's callback reporting the failure itself,
\* whatever the state of the race.
TimerFiresUnguarded(i) ==
  /\ timer[i].state = "armed"
  /\ now >= timer[i].due
  /\ timer' = [timer EXCEPT ![i].state = "fired"]
  /\ race' = [race EXCEPT ![i] = IF @ = Pending THEN Rejected(TimeoutError) ELSE @]
  /\ main' = [main EXCEPT ![i] = CatchMain(TimeoutError)]
  /\ caught' = [caught EXCEPT ![i] = Some(TimeoutError)]
  /\ puts' = [puts EXCEPT ![i] = CatchPuts(i, @, TimeoutError)]
  /\ UNCHANGED <<now, event, context, handlers, disp, dispError, calls, handler>>

\* The timer fires: it logs and rejects handleTimeout's promise, and if the
\* race is undecided the entry point's catch block runs.
TimerFires(i) ==
  /\ timer[i].state = "armed"
  /\ now >= timer[i].due
  /\ timer' = [timer EXCEPT ![i].state = "fired"]
  /\ IF race[i] = Pending
     THEN /\ race' = [race EXCEPT ![i] = Rejected(TimeoutError)]
          /\ main' = [main EXCEPT ![i] = CatchMain(TimeoutError)]
          /\ caught' = [caught EXCEPT ![i] = Some(TimeoutError)]
          /\ puts' = [puts EXCEPT ![i] = CatchPuts(i, @, TimeoutError)]
     ELSE UNCHANGED <<race, main, caught, puts>>
  /\ UNCHANGED <<now, event, context, handlers, disp, dispError, calls, handler>>

\* axios.put of the k-th PUT resolves: sendResponse returns to the function
\* that awaits it.
PutSucceeds(i, k) ==
  /\ k \in DOMAIN puts[i]
  /\ puts[i][k].status = "inflight"
  /\ puts' = [puts EXCEPT ![i][k].status = "ok"]
  /\ IF puts[i][k].from = "handleRessource"
     THEN /\ disp' = [disp EXCEPT ![i] = "fulfilled"]
          /\ IF race[i] = Pending
             THEN /\ race' = [race EXCEPT ![i] = Fulfilled]
                  /\ main' = [main EXCEPT ![i] = "resolved"]
             ELSE UNCHANGED <<race, main>>
     ELSE /\ main' = [main EXCEPT ![i] = "resolved"]
          /\ UNCHANGED <<disp, race>>
  /\ UNCHANGED <<now, event, context, handlers, dispError, calls, handler, timer,
                 caught>>

\* axios.put of the k-th PUT rejects: sendResponse logs and rethrows to the
\* function that awaits it.
PutFails(i, k) ==
  /\ k \in DOMAIN puts[i]
  /\ puts[i][k].status = "inflight"
  /\ IF puts[i][k].from = "handleRessource"
     THEN /\ disp' = [disp EXCEPT ![i] = "rejected"]
          /\ dispError' = [dispError EXCEPT ![i] = Some(NetworkError)]
          /\ IF race[i] = Pending
             THEN /\ race' = [race EXCEPT ![i] = Rejected(NetworkError)]
                  /\ main' = [main EXCEPT ![i] = CatchMain(NetworkError)]
                  /\ caught' = [caught EXCEPT ![i] = Some(NetworkError)]
                  /\ puts' = [puts EXCEPT ![i] =
                       CatchPuts(i, [@ EXCEPT ![k].status = "failed"], NetworkError)]
             ELSE /\ puts' = [puts EXCEPT ![i][k].status = "failed"]
                  /\ UNCHANGED <<race, main, caught>>
     ELSE /\ puts' = [puts EXCEPT ![i][k].status = "failed"]
          /\ main' = [main EXCEPT ![i] = "rejected"]
          /\ UNCHANGED <<disp, dispError, race, caught>>
  /\ UNCHANGED <<now, event, context, handlers, calls, handler, timer>>

\* Time passes: the clock runs for MaxTicks steps, and on while an armed
\* timer waits to be due.
Tick ==
  /\ \/ now < MaxTicks * TickMs
     \/ \E i \in Invocations : timer[i].state = "armed" /\ now < timer[i].due
  /\ now' = now + TickMs
  /\ UNCHANGED <<event, context, main, handlers, disp, dispError, calls,
                 handler, timer, race, caught, puts>>

\* The steps of invocation i.
Step(i) ==
  \/ \E rt \in RequestTypes, lt \in Lifetimes, f \in SyncFailures : Invoke(i, rt, lt, f)
  \/ \E e \in UserErrors : FactoryRejects(i, e)
  \/ \E hs \in SUBSET HandlerNames : FactoryResolves(i, hs)
  \/ \E r \in HandlerReturns \cup {Void} : HandlerResolves(i, r)
  \/ \E e \in UserErrors : HandlerRejects(i, e)
  \/ TimerFires(i)
  \/ \E k \in 1..2 : PutSucceeds(i, k)
  \/ \E k \in 1..2 : PutFails(i, k)

Next == (\E i \in SingleInvocation : Step(i)) \/ Tick

Spec == Init /\ [][Next]_vars

\* The event loop runs a timer that is due, and time does not stop.
Fairness ==
  /\ WF_vars(Tick)
  /\ \A i \in SingleInvocation : WF_vars(TimerFires(i))

FairSpec == Spec /\ Fairness

\* Two invocations of the same entry point, interleaved.  Each takes the
\* steps of Step on fewer inputs: a Create event for the first and a Delete
\* event for the second, a handler set with every handler or none, one
\* error, and a handler result that names the invocation; both are invoked
\* before the clock first advances.
PairType(i) == IF i = 1 THEN "Create" ELSE "Delete"

PairReturn(i) ==
  IF PairType(i) = "Delete" THEN Void
  ELSE [physicalResourceId |-> IF i = 1 THEN "id-A" ELSE "id-B",
        responseData |-> Some(SomeData)]

PairStep(i) ==
  \/ \E lt \in Lifetimes : now = 0 /\ Invoke(i, PairType(i), lt, Absent)
  \/ FactoryRejects(i, ErrorWith("boom"))
  \/ \E hs \in {{}, HandlerNames} : FactoryResolves(i, hs)
  \/ HandlerResolves(i, PairReturn(i))
  \/ HandlerRejects(i, ErrorWith("boom"))
  \/ TimerFires(i)
  \/ \E k \in 1..2 : PutSucceeds(i, k)
  \/ \E k \in 1..2 : PutFails(i, k)

PairNext == (\E i \in Invocations : PairStep(i)) \/ Tick

PairSpec == Init /\ [][PairNext]_vars

\* ------------------------------------------------------------ the claims

\* The bodies of the PUTs invocation i has issued.
Bodies(i) == {puts[i][k].body : k \in DOMAIN puts[i]}

\* The envelope of the Deadline Guard's failure.
IsTimeoutEnvelope(b) == b.Status = "FAILED" /\ b.Reason = "Execution timed out"

\* Invocation i started with less than the safety margin left.
StartedLate(i) ==
  /\ main[i] # "idle"
  /\ context[i].deadline - context[i].startedAt < SAFETY_MARGIN_MS

\* C1: no invocation issues a second PUT, and one whose entry point's
\* promise has resolved has issued exactly one.
C1_ExactlyOnePut ==
  \A i \in Invocations :
    /\ Len(puts[i]) <= 1
    /\ main[i] = "resolved" => Len(puts[i]) = 1

\* C2: once the race is decided (and the winner's callback, if any, is
\* issued in that same step), no step of the losing task issues a PUT.
C2_LoserIsInert ==
  [][\A i \in Invocations :
       race[i].state \in {"fulfilled", "rejected"} => Len(puts'[i]) = Len(puts[i])]_vars

\* C3: an invocation one of whose PUTs has failed does not resolve.
C3_DeliveryFailureRejects ==
  \A i \in Invocations :
    (\E k \in DOMAIN puts[i] : puts[i][k].status = "failed") => main[i] # "resolved"

\* C4: the entry point's promise rejects only when a PUT has failed.
C4_RejectsOnlyOnDeliveryFailure ==
  \A i \in Invocations :
    main[i] = "rejected" => \E k \in DOMAIN puts[i] : puts[i][k].status = "failed"

\* C5 as stated: an invocation that started with less than the safety
\* margin left and has resolved has sent the "Execution timed out" envelope.
C5_LateStartAlwaysTimesOut ==
  \A i \in Invocations :
    (StartedLate(i) /\ main[i] = "resolved") => \E b \in Bodies(i) : IsTimeoutEnvelope(b)

\* C5 as amended: if less than the safety margin is left when the Deadline
\* Guard is armed, its timer is due at once; and when it has fired, either
\* the Dispatcher had settled the race before it or the "Execution timed
\* out" envelope has been sent, whatever the handler does later.
C5_ImmediateTimeout ==
  \A i \in Invocations :
    (timer[i].state # "none" /\ context[i].deadline - timer[i].armedAt < SAFETY_MARGIN_MS) =>
      /\ timer[i].due = timer[i].armedAt
      /\ timer[i].state = "fired" =>
           \/ race[i].state = "fulfilled"
           \/ race[i].state = "rejected" /\ race[i].reason # TimeoutError
           \/ \E b \in Bodies(i) : IsTimeoutEnvelope(b)

\* C5, its case: started late, the timer won the race, the handler resolved
\* afterwards, and the timeout envelope is among the PUTs.
C5_Witness ==
  \E i \in Invocations :
    /\ StartedLate(i)
    /\ timer[i].state = "fired"
    /\ race[i] = Rejected(TimeoutError)
    /\ handler[i].state = "resolved"
    /\ \E b \in Bodies(i) : IsTimeoutEnvelope(b)

\* The Reason the spec gives to a rejection: its message, "Internal Error"
\* when it carries none.
ReasonOfRejection(error) ==
  IF error.kind = "Error" /\ error.message # "" THEN error.message ELSE "Internal Error"

\* C6: when the handler's rejection decided the race, a FAILED envelope has
\* been sent whose Reason is the rejection's message, or "Internal Error".
C6_HandlerRejectionReason ==
  \A i \in Invocations :
    (handler[i].state = "rejected" /\ race[i] = Rejected(handler[i].value)) =>
      \E b \in Bodies(i) :
        b.Status = "FAILED" /\ b.Reason = ReasonOfRejection(handler[i].value)

\* The event of invocation i has a RequestType the switch does not know.
InvalidRequestType(i) ==
  event[i].RequestType \notin {"none", "Create", "Update", "Delete"}

\* C7 as stated: an invocation with an unknown RequestType that has resolved
\* has invoked no handler and issued exactly one PUT, a FAILED envelope
\* whose Reason is "Invalid RequestType received".
C7_InvalidTypeAlwaysReported ==
  \A i \in Invocations :
    (InvalidRequestType(i) /\ main[i] = "resolved") =>
      /\ calls[i] = << >>
      /\ Len(puts[i]) = 1
      /\ puts[i][1].body.Status = "FAILED"
      /\ puts[i][1].body.Reason = "Invalid RequestType received"

\* C7 as amended: with an unknown RequestType no handler is ever invoked and
\* at most one PUT is issued; once the handler-set factory has resolved,
\* exactly one is, a FAILED envelope with Reason "Invalid RequestType
\* received".
C7_InvalidRequestType ==
  \A i \in Invocations :
    InvalidRequestType(i) =>
      /\ calls[i] = << >>
      /\ Len(puts[i]) <= 1
      /\ race[i] # NoRace =>
           /\ Len(puts[i]) = 1
           /\ puts[i][1].body.Status = "FAILED"
           /\ puts[i][1].body.Reason = "Invalid RequestType received"

\* C7, its case: an unknown RequestType went through the Dispatcher, the
\* callback was delivered and the timer has fired since.
C7_Witness ==
  \E i \in Invocations :
    /\ InvalidRequestType(i)
    /\ race[i] = Rejected(InvalidRequestTypeError)
    /\ main[i] = "resolved"
    /\ timer[i].state = "fired"
    /\ handlers[i] = HandlerNames

\* Invocation i's Create or Update handler resolved before the timer fired.
CreateOrUpdateResolved(i) ==
  /\ event[i].RequestType \in {"Create", "Update"}
  /\ handler[i].state = "resolved"
  /\ handler[i].inTime

\* C8: the SUCCESS envelope carries the returned physicalResourceId,
\* whatever string it is, and the returned responseData, {} when omitted.
C8_EnvelopeCarriesResult ==
  \A i \in Invocations :
    CreateOrUpdateResolved(i) =>
      \E b \in Bodies(i) :
        /\ b.Status = "SUCCESS"
        /\ b.Reason = "OK"
        /\ b.PhysicalResourceId = handler[i].value.physicalResourceId
        /\ b.Data = IF handler[i].value.responseData = Absent THEN {}
                    ELSE handler[i].value.responseData[1]

\* The handler-set factory of invocation i resolved with no handler for the
\* event's Create or Update.
CreateOrUpdateUnhandled(i) ==
  /\ race[i] # NoRace
  /\ \/ event[i].RequestType = "Create" /\ "onCreate" \notin handlers[i]
     \/ event[i].RequestType = "Update" /\ "onUpdate" \notin handlers[i]

\* C9: a Create or Update without its handler invokes no handler, and its
\* first PUT is a SUCCESS envelope with PhysicalResourceId "None" and Data {}.
C9_NoHandlerSucceeds ==
  \A i \in Invocations :
    CreateOrUpdateUnhandled(i) =>
      /\ calls[i] = << >>
      /\ Len(puts[i]) >= 1
      /\ puts[i][1].body.Status = "SUCCESS"
      /\ puts[i][1].body.PhysicalResourceId = "None"
      /\ puts[i][1].body.Data = {}

\* C9, its case: an Update that carries an id, with the other two handlers
\* registered, whose SUCCESS callback was delivered.
C9_Witness ==
  \E i \in Invocations :
    /\ event[i].RequestType = "Update"
    /\ handlers[i] = {"onCreate", "onDelete"}
    /\ race[i] = Fulfilled
    /\ main[i] = "resolved"

\* Invocation i's onDelete handler resolved before the timer fired.
DeleteResolved(i) ==
  /\ event[i].RequestType = "Delete"
  /\ handler[i].state = "resolved"
  /\ handler[i].inTime

\* C10: a Delete whose handler resolved has sent a SUCCESS envelope with
\* PhysicalResourceId "None" and Data {}, whatever id the event carries.
C10_DeleteSucceeds ==
  \A i \in Invocations :
    DeleteResolved(i) =>
      /\ calls[i] = <<"onDelete">>
      /\ \E b \in Bodies(i) :
           /\ b.Status = "SUCCESS"
           /\ b.PhysicalResourceId = "None"
           /\ b.Data = {}

\* C10, its case: a Delete event carrying an id, whose handler resolved and
\* whose SUCCESS callback was delivered.
C10_Witness ==
  \E i \in Invocations :
    /\ DeleteResolved(i)
    /\ event[i].PhysicalResourceId = Some("id-A")
    /\ race[i] = Fulfilled
    /\ main[i] = "resolved"

\* Invocation i has sent the envelope of the Deadline Guard's failure.
TimeoutSent(i) == \E b \in Bodies(i) : IsTimeoutEnvelope(b)

\* C11: while the awaited handler stays pending, the "Execution timed out"
\* envelope is eventually sent; and it is never sent before the remaining
\* time less the safety margin has elapsed.
C11_HangingHandlerTimesOut ==
  \A i \in Invocations :
    /\ [](TimeoutSent(i) => now >= context[i].deadline - SAFETY_MARGIN_MS)
    /\ (disp[i] = "awaitHandler") ~> (disp[i] # "awaitHandler" \/ TimeoutSent(i))

\* C11, its case: the guard had to wait, the handler is still pending and
\* the timeout envelope was delivered.
C11_Witness ==
  \E i \in Invocations :
    /\ timer[i].due > timer[i].armedAt
    /\ handler[i].state = "pending"
    /\ TimeoutSent(i)
    /\ main[i] = "resolved"

\* C12: no step issues a PUT when an earlier PUT of the invocation has
\* failed (by that step at the latest).
C12_NoRetry ==
  [][\A i \in Invocations :
       Len(puts'[i]) > Len(puts[i]) =>
         \A k \in DOMAIN puts[i] : puts'[i][k].status # "failed"]_vars

\* The catch block of invocation i ran before the race was started: the log
\* factory or the handler-set factory failed.
FactoryFailed(i) == caught[i] # Absent /\ race[i] = NoRace

\* C13: when the log factory or the handler-set factory has failed, no
\* handler was invoked, no timer was armed and exactly one PUT was issued, a
\* FAILED envelope whose Reason is the error's message, or "Internal Error".
C13_FactoryFailureReported ==
  \A i \in Invocations :
    FactoryFailed(i) =>
      /\ calls[i] = << >>
      /\ timer[i].state = "none"
      /\ Len(puts[i]) = 1
      /\ puts[i][1].body.Status = "FAILED"
      /\ puts[i][1].body.Reason = ReasonOfRejection(caught[i][1])

\* The handler that matches the RequestType of invocation i's event.
MatchingHandler(i) ==
  CASE event[i].RequestType = "Create" -> "onCreate"
    [] event[i].RequestType = "Update" -> "onUpdate"
    [] event[i].RequestType = "Delete" -> "onDelete"
    [] OTHER -> "none"

\* Invocation i has sent a SUCCESS envelope.
SuccessSent(i) == \E b \in Bodies(i) : b.Status = "SUCCESS"

\* C14: at most one handler is invoked, once, and it is the registered one
\* that matches the RequestType; a SUCCESS envelope has been sent only if
\* that handler has resolved, or if none is registered for a valid type.
C14_OneMatchingHandler ==
  \A i \in Invocations :
    /\ Len(calls[i]) <= 1
    /\ calls[i] # << >> =>
         calls[i][1] = MatchingHandler(i) /\ calls[i][1] \in handlers[i]
    /\ SuccessSent(i) =>
         \/ calls[i] # << >> /\ handler[i].state = "resolved"
         \/ /\ calls[i] = << >>
            /\ MatchingHandler(i) \in HandlerNames \ handlers[i]

\* C14, its case: an Update with all three handlers registered invoked
\* onUpdate alone, which resolved, and the SUCCESS callback was delivered.
C14_Witness ==
  \E i \in Invocations :
    /\ event[i].RequestType = "Update"
    /\ handlers[i] = HandlerNames
    /\ calls[i] = <<"onUpdate">>
    /\ handler[i].state = "resolved"
    /\ SuccessSent(i)
    /\ main[i] = "resolved"

\* C15: every FAILED envelope has PhysicalResourceId "None" and Data {}.
C15_FailedEnvelopeIsBare ==
  \A i \in Invocations :
    \A b \in Bodies(i) :
      b.Status = "FAILED" => b.PhysicalResourceId = "None" /\ b.Data = {}

\* C15, its case: an event that carries a PhysicalResourceId whose handler
\* rejected, and the FAILED callback was delivered.
C15_Witness ==
  \E i \in Invocations :
    /\ handler[i].state = "rejected"
    /\ race[i] = Rejected(handler[i].value)
    /\ event[i].PhysicalResourceId = Some("id-A")
    /\ \E b \in Bodies(i) : b.Status = "FAILED"
    /\ main[i] = "resolved"

\* C16: once the Dispatcher path has won the race (its SUCCESS PUT
\* completed), the entry point is resolved and the timer is still set, not
\* cancelled; and no later step, the timer's firing included, issues a PUT,
\* changes a PUT or changes the result of the entry point or of the race.
C16_LateTimerIsInert ==
  [][\A i \in Invocations :
       race[i] = Fulfilled =>
         /\ main[i] = "resolved"
         /\ timer[i].state \in {"armed", "fired"}
         /\ timer'[i].state \in {"armed", "fired"}
         /\ puts'[i] = puts[i]
         /\ main'[i] = main[i]
         /\ race'[i] = race[i]]_vars

\* C16, its case: the timer has fired after the Dispatcher path won the
\* race, and the one PUT is the delivered SUCCESS envelope.
C16_Witness ==
  \E i \in Invocations :
    /\ race[i] = Fulfilled
    /\ timer[i].state = "fired"
    /\ main[i] = "resolved"
    /\ Len(puts[i]) = 1
    /\ puts[i][1].status = "ok"
    /\ puts[i][1].body.Status = "SUCCESS"

\* C17: while the handler-set factory is pending, no timer is armed, no
\* handler has been invoked, the race has not started and no PUT has been
\* issued; and a timer is armed, a handler invoked or a SUCCESS or timeout
\* envelope sent only once the factory has resolved.
C17_FactoryBeforeRace ==
  \A i \in Invocations :
    /\ main[i] \in {"idle", "awaitFactory"} =>
         /\ timer[i].state = "none"
         /\ calls[i] = << >>
         /\ race[i] = NoRace
         /\ puts[i] = << >>
    /\ (timer[i].state # "none" \/ calls[i] # << >> \/ SuccessSent(i) \/ TimeoutSent(i)) =>
         race[i] # NoRace

\* C17, its case: the factory is still pending when the whole time the
\* invocation had is over, and nothing has been armed, invoked or sent.
C17_Witness ==
  \E i \in Invocations :
    /\ main[i] = "awaitFactory"
    /\ now >= context[i].deadline
    /\ timer[i].state = "none"
    /\ puts[i] = << >>

\* The PUT p of invocation i goes to the ResponseURL of i's event, names
\* the stack, request and resource of that event, and tells the outcome of
\* i's own handler, catch block and timer.
OwnEnvelope(i, p) ==
  /\ p.url = event[i].ResponseURL
  /\ p.body.StackId = event[i].StackId
  /\ p.body.RequestId = event[i].RequestId
  /\ p.body.LogicalResourceId = event[i].LogicalResourceId
  /\ p.body.Status = "SUCCESS" =>
       \/ /\ handler[i].state = "resolved"
          /\ p.body.PhysicalResourceId =
               IF event[i].RequestType = "Delete" THEN "None"
               ELSE handler[i].value.physicalResourceId
       \/ calls[i] = << >> /\ p.body.PhysicalResourceId = "None"
  /\ p.body.Status = "FAILED" =>
       caught[i] # Absent /\ p.body.Reason = ReasonOfRejection(caught[i][1])
  /\ IsTimeoutEnvelope(p.body) => timer[i].state = "fired"

\* C18: with two invocations interleaved, every PUT of an invocation is its
\* own: its event's URL and identifiers, its handler's outcome, its timer.
C18_InvocationsAreIsolated ==
  \A i \in Invocations :
    \A k \in DOMAIN puts[i] : OwnEnvelope(i, puts[i][k])

\* C18, its case: both invocations are under way at once, the first with
\* the SUCCESS envelope of its handler's result in flight, the second with
\* the FAILED envelope of its timer in flight, to different URLs.
C18_Witness ==
  /\ main[1] = "awaitRace"
  /\ handler[1].state = "resolved"
  /\ puts[1][1].status = "inflight"
  /\ puts[1][1].body.PhysicalResourceId = "id-A"
  /\ main[2] = "awaitSend"
  /\ race[2] = Rejected(TimeoutError)
  /\ handler[2].state = "pending"
  /\ puts[2][1].status = "inflight"
  /\ puts[2][1].url # puts[1][1].url
  /\ puts[2][1].body.RequestId # puts[1][1].body.RequestId

=============================================================================
